---- MODULE Spec2Model ----
(***************************************************************************)
(* Sumner Tunnel ridership analysis (src/main.py).                         *)
(*                                                                         *)
(* The script's functions are modelled as operators over DataFrames and    *)
(* the script itself as a sequence of calls executed one statement at a    *)
(* time.  A raw DataFrame is a sequence of rows; a grouped DataFrame       *)
(* (unique keys) is a set of rows.  A Service Date value is either the     *)
(* string read from the CSV, [str |-> s], or a pandas Timestamp,           *)
(* [ts |-> ordinal day of 2023].                                           *)
(***************************************************************************)
EXTENDS Integers, Sequences, FiniteSets, TLC

VARIABLES
    disk,      \* the two CSV files: [BLUE |-> rows, ORANGE |-> rows]
    script,    \* the sequence of calls being executed
    pc,        \* index of the next statement of script
    frames,    \* the in-memory DataFrames, by variable name
    stdout,    \* what the calls have printed, one entry per call
    raised     \* "none", or the exception that ended the script

vars == <<disk, script, pc, frames, stdout, raised>>

(***************************************************************************)
(* Bounds of the model.                                                    *)
(***************************************************************************)
MaxRows == 3
MaxRowsMain == 2
MaxRowsLine == 4
MaxEntries == 1
MaxMissing == 1

(***************************************************************************)
(* Calendar: Timestamps are ordinal days of 2023.                          *)
(***************************************************************************)
DaysBeforeMonth == <<0, 31, 59, 90, 120, 151, 181, 212, 243, 273, 304, 334>>

Ordinal(month, dayOfMonth) == DaysBeforeMonth[month] + dayOfMonth

Timestamp(ordinal) == [ts |-> ordinal]

date_range(first, last) == {Timestamp(o) : o \in first..last}

BC_SUMNER == date_range(Ordinal(6, 1), Ordinal(7, 4))

AC_SUMNER == date_range(Ordinal(7, 5), Ordinal(9, 1))

OL_STATIONS ==
    <<"Oak Grove", "Malden Center", "Wellington", "Assembly",
      "Sullivan Square", "Community College", "North Station",
      "Haymarket", "State Street">>

BL_STATIONS ==
    <<"Wonderland", "Revere Beach", "Beachmont", "Suffolk Downs",
      "Orient Heights", "Wood Island", "Airport", "Maverick",
      "Aquarium", "State Street", "Government Center", "Bowdoin">>

Range(s) == {s[i] : i \in 1..Len(s)}

(***************************************************************************)
(* pd.to_datetime on one value: a date string is parsed, a Timestamp is    *)
(* kept.  DateText gives the calendar fields of the date strings the       *)
(* model's files use.                                                      *)
(***************************************************************************)
DateText ==
    [s \in {"2023-07-03", "2023-07-04", "2023-07-05", "2023-09-02"} |->
        CASE s = "2023-07-03" -> <<7, 3>>
          [] s = "2023-07-04" -> <<7, 4>>
          [] s = "2023-07-05" -> <<7, 5>>
          [] s = "2023-09-02" -> <<9, 2>>]

to_datetime(v) ==
    IF "str" \in DOMAIN v
    THEN Timestamp(Ordinal(DateText[v.str][1], DateText[v.str][2]))
    ELSE v

(***************************************************************************)
(* Column operations on a raw DataFrame (a sequence of rows).              *)
(***************************************************************************)
\* df.loc[mask]: the rows of df that the mask keeps, in order.
Loc(df, mask) == SelectSeq(df, LAMBDA r : r \in mask)

AssignLine(df, stops, line) ==
    [i \in 1..Len(df) |->
        IF df[i].StopName \in stops
        THEN [df[i] EXCEPT !.RouteOrLine = line]
        ELSE df[i]]

ParseServiceDate(df) ==
    [i \in 1..Len(df) |-> [df[i] EXCEPT !.ServiceDate = to_datetime(@)]]

(***************************************************************************)
(* get_line_entries(df, line, weekdays_only).  The result records what     *)
(* the call raised, what it returned (ret), what it printed (out) and the  *)
(* state in which it left the caller's DataFrame object (arg): for the     *)
(* Blue Line the assignments of lines 66-70 act on the caller's object,    *)
(* for the Orange Line line 61 rebinds df to a new frame first.            *)
(***************************************************************************)
IsOwnedOL(r) == r.StopName \in Range(OL_STATIONS)

IsWeekday(r) == r.day = "Weekday"

gle_stops(line) ==
    CASE line = "Blue Line" -> {"Government Center", "State Street"}
      [] line = "Orange Line" -> {"Haymarket", "North Station", "State Street"}
      [] OTHER -> {}

\* Mutant: line 61 left out.
gle_bound_unfiltered(df, line) == df

gle_bound(df, line) ==
    IF line = "Orange Line" THEN Loc(df, {r \in Range(df) : IsOwnedOL(r)}) ELSE df

gle_assigned(df, line) ==
    ParseServiceDate(AssignLine(gle_bound(df, line), gle_stops(line), line))

\* Mutant: the selection of line 79 taken before the assignment of lines
\* 66-67, from the labels as they were passed in.
gle_cleaned_stale(df, line, weekdays_only) ==
    LET b == gle_bound(df, line)
        OnLine(i) == b[i].RouteOrLine = line
        a == gle_assigned(df, line)
        kept == {i \in 1..Len(b) :
                    OnLine(i) /\ (weekdays_only => IsWeekday(b[i]))}
        KeptIndex(i) == i \in kept
        idx == SelectSeq([i \in 1..Len(b) |-> i], KeptIndex)
    IN  [k \in 1..Len(idx) |-> a[idx[k]]]

gle_cleaned(df, line, weekdays_only) ==
    LET a == gle_assigned(df, line)
        w == IF weekdays_only THEN Loc(a, {r \in Range(a) : IsWeekday(r)}) ELSE a
    IN  Loc(w, {r \in Range(w) : r.RouteOrLine = line})

get_line_entries(df, line, weekdays_only) ==
    IF line \notin {"Blue Line", "Orange Line"}
    THEN [raised |-> "UnboundLocalError",
          out |-> <<"No stops set for this station. Please try again.">>,
          ret |-> <<>>,
          arg |-> df]
    ELSE [raised |-> "none",
          out |-> <<>>,
          ret |-> gle_cleaned(df, line, weekdays_only),
          arg |-> IF line = "Blue Line" THEN gle_assigned(df, line) ELSE df]

(***************************************************************************)
(* Arithmetic.  Python's round() and numpy's round() both round halves to  *)
(* the even neighbour; RoundHalfEven(n, d) is round(n / d) for d > 0.      *)
(***************************************************************************)
RECURSIVE SumOver(_, _)
SumOver(S, f) ==
    IF S = {} THEN 0
    ELSE LET x == CHOOSE y \in S : TRUE
         IN  f[x] + SumOver(S \ {x}, f)

RoundHalfEven(n, d) ==
    LET q == n \div d
        r == n - q * d
    IN  IF 2 * r < d THEN q
        ELSE IF 2 * r > d THEN q + 1
        ELSE IF q % 2 = 0 THEN q ELSE q + 1

MonthName ==
    <<"Jan", "Feb", "Mar", "Apr", "May", "Jun",
      "Jul", "Aug", "Sep", "Oct", "Nov", "Dec">>

\* Timestamp.strftime("%d %b %Y"), as <<day of month, month name, year>>.
strftime(t) ==
    LET m == CHOOSE k \in 1..12 :
                 /\ DaysBeforeMonth[k] < t.ts
                 /\ (k = 12 \/ t.ts <= DaysBeforeMonth[k + 1])
    IN  <<t.ts - DaysBeforeMonth[m], MonthName[m], 2023>>

MaxDate(dates) == CHOOSE d \in dates : \A e \in dates : e.ts <= d.ts

MinDate(dates) == CHOOSE d \in dates : \A e \in dates : d.ts <= e.ts

(***************************************************************************)
(* daily_ridership(df): one row per (Service Date, Stop Name) with the     *)
(* sum of Total Entries.                                                   *)
(***************************************************************************)
daily_ridership(df) ==
    LET keys == {<<df[i].ServiceDate, df[i].StopName>> : i \in 1..Len(df)}
        members(k) == {i \in 1..Len(df) :
                          <<df[i].ServiceDate, df[i].StopName>> = k}
        entries == [i \in 1..Len(df) |-> df[i].TotalEntries]
    IN  {[ServiceDate |-> k[1], StopName |-> k[2],
          TotalEntries |-> SumOver(members(k), entries)] : k \in keys}

\* df.groupby(key)['Total Entries'] of a grouped frame: key -> (sum, count).
GroupSum(df, key, k) ==
    LET g == {r \in df : r[key] = k}
    IN  SumOver(g, [r \in g |-> r.TotalEntries])

GroupCount(df, key, k) == Cardinality({r \in df : r[key] = k})

ByDate == "ServiceDate"

ByStop == "StopName"

(***************************************************************************)
(* overall_stats(df, line).  printed lists what was printed before the     *)
(* call returned or raised.                                                *)
(***************************************************************************)
os_daily(df) ==
    LET dates == {r.ServiceDate : r \in df}
    IN  [d \in dates |-> GroupSum(df, ByDate, d)]

os_updated_day(daily) == MaxDate(DOMAIN daily)

\* Mutant: the isin(BC_SUMNER) selection of line 198 left out.
os_before_all(daily) == DOMAIN daily

os_before(daily) == DOMAIN daily \cap BC_SUMNER

os_avg_ride_bc(daily) ==
    RoundHalfEven(SumOver(os_before(daily), daily),
                  Cardinality(os_before(daily)))

\* As ss_percent: exact for avg_ride_bc < 40, a nearest integer always.
os_delta(updated_num, avg_ride_bc) ==
    RoundHalfEven((updated_num - avg_ride_bc) * 100, avg_ride_bc)

overall_stats(df, line) ==
    LET daily == os_daily(df)
    IN  IF DOMAIN daily = {}
        THEN [raised |-> "IndexError", printed |-> <<>>]
        ELSE
        LET updated_day == os_updated_day(daily)
            updated_num == daily[updated_day]
            p1 == [line |-> line, updated_day |-> strftime(updated_day),
                   updated_num |-> updated_num]
        IN  IF os_before(daily) = {}
            THEN [raised |-> "ValueError", printed |-> <<p1>>]
            ELSE
            LET avg_ride_bc == os_avg_ride_bc(daily)
                p2 == [line |-> line, avg_ride_bc |-> avg_ride_bc]
            IN  IF avg_ride_bc = 0
                THEN [raised |-> IF updated_num = 0 THEN "ValueError"
                                 ELSE "OverflowError",
                      printed |-> <<p1, p2>>]
                ELSE [raised |-> "none",
                      printed |-> <<p1, p2,
                          [line |-> line,
                           delta |-> os_delta(updated_num, avg_ride_bc)]>>]

(***************************************************************************)
(* The line names the script passes, split at whitespace (str.split).      *)
(***************************************************************************)
LineWords ==
    [l \in {"Orange Line", "Blue Line", "Orange Line (weekdays)",
            "Blue Line (weekdays)", "Green Line"} |->
        CASE l = "Orange Line" -> <<"Orange", "Line">>
          [] l = "Blue Line" -> <<"Blue", "Line">>
          [] l = "Orange Line (weekdays)" -> <<"Orange", "Line", "(weekdays)">>
          [] l = "Blue Line (weekdays)" -> <<"Blue", "Line", "(weekdays)">>
          [] l = "Green Line" -> <<"Green", "Line">>]

\* line.startswith(prefix), for a prefix that is itself one of the names.
startswith(line, prefix) ==
    /\ Len(LineWords[prefix]) <= Len(LineWords[line])
    /\ SubSeq(LineWords[line], 1, Len(LineWords[prefix])) = LineWords[prefix]

upper(word) ==
    CASE word = "Orange" -> "ORANGE"
      [] word = "Blue" -> "BLUE"
      [] word = "Green" -> "GREEN"
      [] word = "Line" -> "LINE"

(***************************************************************************)
(* check_missing(after_sumner, line): the set of printed reports, one per  *)
(* date with fewer rows than the line has stations.                        *)
(***************************************************************************)
cm_stations(line) ==
    IF startswith(line, "Orange Line") THEN Range(OL_STATIONS)
    ELSE IF startswith(line, "Blue Line") THEN Range(BL_STATIONS)
    ELSE {}

cm_expected(line) ==
    IF startswith(line, "Orange Line") THEN Len(OL_STATIONS)
    ELSE IF startswith(line, "Blue Line") THEN Len(BL_STATIONS)
    ELSE 0

\* Mutant: <= for < in the comparison of lines 230 and 232.
cm_dates_missing_le(after_sumner, line) ==
    {d \in {r.ServiceDate : r \in after_sumner} :
        GroupCount(after_sumner, ByDate, d) <= cm_expected(line)}

cm_dates_missing(after_sumner, line) ==
    {d \in {r.ServiceDate : r \in after_sumner} :
        GroupCount(after_sumner, ByDate, d) < cm_expected(line)}

check_missing(after_sumner, line) ==
    {[line |-> line,
      date |-> strftime(d),
      missing |-> cm_stations(line) \
                  {r.StopName : r \in {x \in after_sumner : x.ServiceDate = d}}]
        : d \in cm_dates_missing(after_sumner, line)}

(***************************************************************************)
(* station_stats(df, line).  full_df is the table before the reindex: a    *)
(* function from index label to its columns.                               *)
(***************************************************************************)
InWindow(df, window) == {r \in df : r.ServiceDate \in window}

ss_mean(part, stop) ==
    RoundHalfEven(GroupSum(part, ByStop, stop), GroupCount(part, ByStop, stop))

ss_line_name(line) ==
    upper(LineWords[line][1]) \o " " \o upper(LineWords[line][2])

\* round(((ac - bc) / bc) * 100).  The floating-point product can leave an
\* exact half by one unit in the last place, so that for bc >= 40 a tie may
\* round to either neighbour; for smaller bc the result is the one below.
ss_percent(bc, ac) == RoundHalfEven((ac - bc) * 100, bc)

\* Mutant: the total row as full_df.mean() instead of full_df.sum().
ss_total_mean(stops, col) ==
    RoundHalfEven(SumOver(stops, col), Cardinality(stops))

ss_total(stops, col) == SumOver(stops, col)

ss_full_df(before_sumner, after_sumner, line) ==
    LET stops == {r.StopName : r \in before_sumner}
        BC == [s \in stops |-> ss_mean(before_sumner, s)]
        AC == [s \in stops |-> ss_mean(after_sumner, s)]
        total == ss_line_name(line) \o " TOTAL"
        bc(i) == IF i = total THEN ss_total(stops, BC) ELSE BC[i]
        ac(i) == IF i = total THEN ss_total(stops, AC) ELSE AC[i]
    IN  [i \in stops \cup {total} |->
            [BeforeClosing |-> bc(i),
             AfterClosing |-> ac(i),
             Differential |-> ac(i) - bc(i),
             Change |-> IF bc(i) = 0 THEN "non-finite"
                        ELSE ToString(ss_percent(bc(i), ac(i))) \o "%"]]

\* Mutant: a cast that lets non-finite values through (numpy's astype).
ss_cast_passes(full_df) == FALSE

\* Line 304, astype(int) of the percent column: pandas refuses to cast a
\* non-finite value (x / 0) to an integer and raises.
ss_cast_fails(full_df) ==
    \E i \in DOMAIN full_df : full_df[i].Change = "non-finite"

\* Alphabetical order of the station names: the order groupby leaves.
SortedStops ==
    <<"Airport", "Aquarium", "Assembly", "Beachmont", "Bowdoin",
      "Community College", "Government Center", "Haymarket",
      "Malden Center", "Maverick", "North Station", "Oak Grove",
      "Orient Heights", "Revere Beach", "State Street", "Suffolk Downs",
      "Sullivan Square", "Wellington", "Wonderland", "Wood Island">>

ss_order(full_df, line) ==
    IF startswith(line, "Orange Line")
    THEN OL_STATIONS \o <<"ORANGE LINE TOTAL">>
    ELSE IF startswith(line, "Blue Line")
    THEN BL_STATIONS \o <<"BLUE LINE TOTAL">>
    ELSE LET InTable(s) == s \in DOMAIN full_df
         IN  SelectSeq(SortedStops, InTable)
                 \o <<ss_line_name(line) \o " TOTAL">>

\* Mutant: full_df.loc[labels present] instead of reindex: no NaN rows.
reindex_present(full_df, labels) ==
    LET Present(l) == l \in DOMAIN full_df
        kept == SelectSeq(labels, Present)
    IN  [i \in 1..Len(kept) |->
            [Name |-> kept[i], NaN |-> FALSE,
             BeforeClosing |-> full_df[kept[i]].BeforeClosing,
             AfterClosing |-> full_df[kept[i]].AfterClosing,
             Differential |-> full_df[kept[i]].Differential,
             Change |-> full_df[kept[i]].Change]]

\* DataFrame.reindex(labels): the rows in the order of labels, a label the
\* table does not have as a row of NaN.
reindex(full_df, labels) ==
    [i \in 1..Len(labels) |->
        IF labels[i] \in DOMAIN full_df
        THEN [Name |-> labels[i], NaN |-> FALSE,
              BeforeClosing |-> full_df[labels[i]].BeforeClosing,
              AfterClosing |-> full_df[labels[i]].AfterClosing,
              Differential |-> full_df[labels[i]].Differential,
              Change |-> full_df[labels[i]].Change]
        ELSE [Name |-> labels[i], NaN |-> TRUE]]

station_stats(df, line) ==
    LET before_sumner == InWindow(df, BC_SUMNER)
        after_sumner == InWindow(df, AC_SUMNER)
        reports == check_missing(after_sumner, line)
        bc_dates == {r.ServiceDate : r \in before_sumner}
        ac_dates == {r.ServiceDate : r \in after_sumner}
        fail == [raised |-> "ValueError", missing |-> reports,
                 table |-> <<>>, dates |-> <<>>]
    IN  IF before_sumner = {} \/ after_sumner = {}
        THEN fail
        ELSE IF {r.StopName : r \in before_sumner}
                    # {r.StopName : r \in after_sumner}
        THEN fail
        ELSE
        LET full_df == ss_full_df(before_sumner, after_sumner, line)
        IN  IF ss_cast_fails(full_df)
            THEN fail
            ELSE [raised |-> "none",
                  missing |-> reports,
                  dates |-> <<strftime(MinDate(bc_dates)),
                              strftime(MaxDate(bc_dates)),
                              strftime(MinDate(ac_dates)),
                              strftime(MaxDate(ac_dates))>>,
                  table |-> reindex(full_df, ss_order(full_df, line))]

(***************************************************************************)
(* plot_ridership(df_lst, line_lst, title_addition): the plotted series,   *)
(* one per line of dict(zip(line_lst, df_lst)).                            *)
(***************************************************************************)
plot_ridership(df_lst, line_lst, title_addition) ==
    [title |-> "Ridership During Sumner Tunnel Closure" \o title_addition,
     series |-> [line \in Range(line_lst) |->
                    LET i == CHOOSE k \in 1..Len(line_lst) :
                                 /\ line_lst[k] = line
                                 /\ \A j \in k + 1..Len(line_lst) :
                                        line_lst[j] # line
                    IN  os_daily(df_lst[i])]]

(***************************************************************************)
(* Main(), lines 324-376, as the sequence of its calls.                    *)
(***************************************************************************)
Read(file, dst) == [op |-> "read_csv", file |-> file, dst |-> dst]

Clean(src, line, weekdays_only, dst) ==
    [op |-> "get_line_entries", src |-> src, line |-> line,
     weekdays_only |-> weekdays_only, dst |-> dst]

Daily(src, dst) == [op |-> "daily_ridership", src |-> src, dst |-> dst]

Plot(srcs, lines, title_addition) ==
    [op |-> "plot_ridership", srcs |-> srcs, lines |-> lines,
     title_addition |-> title_addition]

Overall(src, line) == [op |-> "overall_stats", src |-> src, line |-> line]

Stations(src, line) == [op |-> "station_stats", src |-> src, line |-> line]

Main ==
    << Read("BLUE", "blue_df"),
       Read("ORANGE", "orange_df"),
       Clean("orange_df", "Orange Line", FALSE, "ol_cleaned"),
       Clean("blue_df", "Blue Line", FALSE, "bl_cleaned"),
       Clean("orange_df", "Orange Line", TRUE, "ol_weekdays_cleaned"),
       Clean("blue_df", "Blue Line", TRUE, "bl_weekdays_cleaned"),
       Daily("ol_cleaned", "ol_daily"),
       Daily("bl_cleaned", "bl_daily"),
       Daily("ol_weekdays_cleaned", "ol_weekdays_daily"),
       Daily("bl_weekdays_cleaned", "bl_weekdays_daily"),
       Plot(<<"ol_daily", "bl_daily">>, <<"Orange Line", "Blue Line">>, ""),
       Plot(<<"ol_daily">>, <<"Orange Line">>, ""),
       Plot(<<"bl_daily">>, <<"Blue Line">>, ""),
       Plot(<<"ol_weekdays_daily", "bl_weekdays_daily">>,
            <<"Orange Line", "Blue Line">>, " (Weekdays Only)"),
       Plot(<<"ol_weekdays_daily">>, <<"Orange Line">>, " (Weekdays Only)"),
       Plot(<<"bl_weekdays_daily">>, <<"Blue Line">>, " (Weekdays Only)"),
       Overall("ol_daily", "Orange Line"),
       Overall("bl_daily", "Blue Line"),
       Overall("ol_weekdays_daily", "Orange Line (weekdays)"),
       Overall("bl_weekdays_daily", "Blue Line (weekdays)"),
       Stations("ol_daily", "Orange Line"),
       Stations("bl_daily", "Blue Line"),
       Stations("ol_weekdays_daily", "Orange Line (weekdays)"),
       Stations("bl_weekdays_daily", "Blue Line (weekdays)") >>

(***************************************************************************)
(* Execution of one statement.  An exception ends the script: nothing in   *)
(* main.py catches one.                                                    *)
(***************************************************************************)
Running == raised = "none" /\ pc <= Len(script)

Stmt == script[pc]

Bind(env, name, value) ==
    [n \in DOMAIN env \cup {name} |-> IF n = name THEN value ELSE env[n]]

Finish(exception) ==
    /\ raised' = exception
    /\ pc' = IF exception = "none" THEN pc + 1 ELSE pc

ReadCsv ==
    /\ Running
    /\ Stmt.op = "read_csv"
    /\ frames' = Bind(frames, Stmt.dst, disk[Stmt.file])
    /\ Finish("none")
    /\ UNCHANGED <<disk, script, stdout>>

GetLineEntries ==
    /\ Running
    /\ Stmt.op = "get_line_entries"
    /\ LET res == get_line_entries(frames[Stmt.src], Stmt.line,
                                   Stmt.weekdays_only)
       IN  /\ frames' = IF res.raised = "none"
                        THEN Bind(Bind(frames, Stmt.src, res.arg),
                                  Stmt.dst, res.ret)
                        ELSE Bind(frames, Stmt.src, res.arg)
           /\ stdout' = IF res.out = <<>> THEN stdout
                        ELSE Append(stdout, [fn |-> "get_line_entries",
                                             printed |-> res.out])
           /\ Finish(res.raised)
    /\ UNCHANGED <<disk, script>>

DailyRidership ==
    /\ Running
    /\ Stmt.op = "daily_ridership"
    /\ frames' = Bind(frames, Stmt.dst, daily_ridership(frames[Stmt.src]))
    /\ Finish("none")
    /\ UNCHANGED <<disk, script, stdout>>

PlotRidership ==
    /\ Running
    /\ Stmt.op = "plot_ridership"
    /\ stdout' = Append(stdout,
           [fn |-> "plot_ridership",
            figure |-> plot_ridership(
                [i \in 1..Len(Stmt.srcs) |-> frames[Stmt.srcs[i]]],
                Stmt.lines, Stmt.title_addition)])
    /\ Finish("none")
    /\ UNCHANGED <<disk, script, frames>>

OverallStats ==
    /\ Running
    /\ Stmt.op = "overall_stats"
    /\ LET res == overall_stats(frames[Stmt.src], Stmt.line)
       IN  /\ stdout' = Append(stdout, [fn |-> "overall_stats",
                                        line |-> Stmt.line,
                                        printed |-> res.printed])
           /\ Finish(res.raised)
    /\ UNCHANGED <<disk, script, frames>>

StationStats ==
    /\ Running
    /\ Stmt.op = "station_stats"
    /\ LET res == station_stats(frames[Stmt.src], Stmt.line)
       IN  /\ stdout' = Append(stdout, [fn |-> "station_stats",
                                        line |-> Stmt.line,
                                        missing |-> res.missing,
                                        dates |-> res.dates,
                                        table |-> res.table])
           /\ Finish(res.raised)
    /\ UNCHANGED <<disk, script, frames>>

CheckMissing ==
    /\ Running
    /\ Stmt.op = "check_missing"
    /\ stdout' = Append(stdout, [fn |-> "check_missing",
                                 line |-> Stmt.line,
                                 missing |-> check_missing(frames[Stmt.src],
                                                           Stmt.line)])
    /\ Finish("none")
    /\ UNCHANGED <<disk, script, frames>>

(***************************************************************************)
(* Input files: every multiset of at most n rows of a universe, each as    *)
(* one sequence.                                                           *)
(***************************************************************************)
RECURSIVE IndexBags(_, _, _)
IndexBags(n, lo, hi) ==
    IF n = 0 THEN {<<>>}
    ELSE {<<>>} \cup
         UNION {{<<i>> \o t : t \in IndexBags(n - 1, i, hi)} : i \in lo..hi}

RECURSIVE SetToSeq(_)
SetToSeq(S) ==
    IF S = {} THEN <<>>
    ELSE LET x == CHOOSE y \in S : TRUE
         IN  <<x>> \o SetToSeq(S \ {x})

FramesOver(universe, n) ==
    LET u == SetToSeq(universe)
    IN  {[k \in 1..Len(b) |-> u[b[k]]] : b \in IndexBags(n, 1, Len(u))}

Row(date, stop, line, entries, day) ==
    [ServiceDate |-> [str |-> date], StopName |-> stop, RouteOrLine |-> line,
     TotalEntries |-> entries, day |-> day]

(***************************************************************************)
(* Spec: a run of Main() over two small files.                             *)
(***************************************************************************)
MainRows ==
    {Row(d, "State Street", l, 1, "Weekday") :
        d \in {"2023-07-04", "2023-07-05"},
        l \in {"Orange Line", "Blue Line"}}

Init ==
    /\ disk \in [BLUE : FramesOver(MainRows, MaxRowsMain),
                 ORANGE : FramesOver(MainRows, MaxRowsMain)]
    /\ script = Main
    /\ pc = 1
    /\ frames = <<>>
    /\ stdout = <<>>
    /\ raised = "none"

Next ==
    \/ ReadCsv
    \/ GetLineEntries
    \/ DailyRidership
    \/ PlotRidership
    \/ OverallStats
    \/ StationStats

Spec == Init /\ [][Next]_vars

(***************************************************************************)
(* SpecFilter: one call of get_line_entries on a file of rows that vary    *)
(* in stop, label and day type, for a known or an unknown line.            *)
(***************************************************************************)
FilterRows ==
    {Row("2023-07-04", s, l, 1, d) :
        s \in {"State Street", "Oak Grove", "Wonderland"},
        l \in {"Orange Line", "Blue Line"},
        d \in {"Weekday", "Saturday"}}

FilterScript(line, weekdays_only) ==
    << Read("INPUT", "df"),
       Clean("df", line, weekdays_only, "cleaned_df") >>

InitFilter ==
    /\ disk \in [INPUT : FramesOver(FilterRows, MaxRows)]
    /\ script \in {FilterScript(l, w) :
                      l \in {"Orange Line", "Blue Line", "Green Line"},
                      w \in BOOLEAN}
    /\ pc = 1
    /\ frames = <<>>
    /\ stdout = <<>>
    /\ raised = "none"

NextFilter ==
    \/ ReadCsv
    \/ GetLineEntries

SpecFilter == InitFilter /\ [][NextFilter]_vars

(***************************************************************************)
(* SpecLine: one line's pipeline as Main() runs it (filter, aggregate,     *)
(* then the line statistics or the station statistics) over a file whose   *)
(* rows carry the line's label and vary in date, stop and entries.         *)
(***************************************************************************)
LineRows(line) ==
    {Row(d, s, line, e, "Weekday") :
        d \in {"2023-07-03", "2023-07-04", "2023-07-05"},
        s \in {"State Street", "Oak Grove"},
        e \in 0..MaxEntries}

LineScript(line, last) ==
    << Read("INPUT", "df"),
       Clean("df", line, FALSE, "cleaned_df"),
       Daily("cleaned_df", "daily"),
       [op |-> last, src |-> "daily", line |-> line] >>

InitLine ==
    /\ \E line \in {"Orange Line", "Blue Line"} :
          /\ disk \in [INPUT : FramesOver(LineRows(line), MaxRowsLine)]
          /\ script \in {LineScript(line, last) :
                            last \in {"overall_stats", "station_stats"}}
    /\ pc = 1
    /\ frames = <<>>
    /\ stdout = <<>>
    /\ raised = "none"

NextLine ==
    \/ ReadCsv
    \/ GetLineEntries
    \/ DailyRidership
    \/ OverallStats
    \/ StationStats

SpecLine == InitLine /\ [][NextLine]_vars

(***************************************************************************)
(* SpecTwice: the pipeline run twice on the same in-memory DataFrame.      *)
(***************************************************************************)
TwiceRows ==
    {Row(d, s, l, 1, "Weekday") :
        d \in {"2023-07-04", "2023-07-05"},
        s \in {"State Street", "Oak Grove"},
        l \in {"Orange Line", "Blue Line"}}

TwiceScript(line) ==
    << Read("INPUT", "df"),
       Clean("df", line, FALSE, "cleaned_1"),
       Daily("cleaned_1", "daily_1"),
       Stations("daily_1", line),
       Clean("df", line, FALSE, "cleaned_2"),
       Daily("cleaned_2", "daily_2"),
       Stations("daily_2", line) >>

InitTwice ==
    /\ disk \in [INPUT : FramesOver(TwiceRows, MaxRows)]
    /\ script \in {TwiceScript(l) : l \in {"Orange Line", "Blue Line"}}
    /\ pc = 1
    /\ frames = <<>>
    /\ stdout = <<>>
    /\ raised = "none"

NextTwice ==
    \/ ReadCsv
    \/ GetLineEntries
    \/ DailyRidership
    \/ StationStats

SpecTwice == InitTwice /\ [][NextTwice]_vars

(***************************************************************************)
(* SpecMissing: one call of check_missing on the AFTER-window daily totals *)
(* of a line: on each of two dates either nothing, or all the line's       *)
(* stations but at most MaxMissing of them, with or without one station    *)
(* that is not the line's.                                                 *)
(***************************************************************************)
MissingDates == {Timestamp(Ordinal(7, 5)), Timestamp(Ordinal(7, 6))}

Reporting(stations, other) ==
    {{}} \cup
    {(stations \ m) \cup x :
        m \in {k \in SUBSET stations : Cardinality(k) <= MaxMissing},
        x \in {{}, {other}}}

MissingFrames(stations, other) ==
    {UNION {{[ServiceDate |-> d, StopName |-> s, TotalEntries |-> 1] :
                s \in by[d]} : d \in MissingDates} :
        by \in [MissingDates -> Reporting(stations, other)]}

InitMissing ==
    /\ disk = <<>>
    /\ \E line \in {"Orange Line", "Blue Line", "Green Line"} :
          /\ script = <<[op |-> "check_missing", src |-> "after_sumner",
                         line |-> line]>>
          /\ \E f \in IF line = "Orange Line"
                      THEN MissingFrames(Range(OL_STATIONS), "Wonderland")
                      ELSE MissingFrames(Range(BL_STATIONS), "Oak Grove") :
                 frames = [after_sumner |-> f]
    /\ pc = 1
    /\ stdout = <<>>
    /\ raised = "none"

NextMissing == CheckMissing

SpecMissing == InitMissing /\ [][NextMissing]_vars

(***************************************************************************)
(* Properties.                                                             *)
(***************************************************************************)
KnownLines == {"Orange Line", "Blue Line"}

\* The statement at index i has been executed (it returned or it raised).
Executed(i) == pc > i \/ (pc = i /\ raised # "none")

Returned(i) == pc > i

StationSet(line) ==
    IF line = "Orange Line" THEN Range(OL_STATIONS) ELSE Range(BL_STATIONS)

SharedStopNames(line) ==
    IF line = "Orange Line"
    THEN {"Haymarket", "North Station", "State Street"}
    ELSE {"Government Center", "State Street"}

\* A record without the two columns get_line_entries rewrites.
Identity(r) == <<r.ServiceDate, r.StopName, r.TotalEntries, r.day>>

Identities(df) == [i \in 1..Len(df) |-> Identity(df[i])]

ParsedIdentities(df) ==
    [i \in 1..Len(df) |->
        <<to_datetime(df[i].ServiceDate), df[i].StopName,
          df[i].TotalEntries, df[i].day>>]

(***************************************************************************)
(* C1.  get_line_entries called with a line that is neither 'Orange Line'  *)
(* nor 'Blue Line' fails with a ConfigurationError: nothing is printed     *)
(* first and no record set is returned.                                    *)
(***************************************************************************)
C1_UnknownLineIsConfigurationError ==
    (script[2].line \notin KnownLines /\ Executed(2)) =>
        /\ raised = "ConfigurationError"
        /\ stdout = <<>>
        /\ "cleaned_df" \notin DOMAIN frames

(***************************************************************************)
(* C2.  As claimed: the output of get_line_entries is exactly the input    *)
(* records whose Stop Name is in the line's station set (weekday records   *)
(* only, with weekdays_only), each labelled with the target line, and      *)
(* every shared-stop record is among them.                                 *)
(***************************************************************************)
C2_WeekdayOk(r) == script[2].weekdays_only => r.day = "Weekday"

C2_InStationSet(r) ==
    r.StopName \in StationSet(script[2].line) /\ C2_WeekdayOk(r)

C2_LabelledOrShared(r) ==
    /\ script[2].line = "Orange Line" => r.StopName \in Range(OL_STATIONS)
    /\ \/ r.StopName \in SharedStopNames(script[2].line)
       \/ r.RouteOrLine = script[2].line
    /\ C2_WeekdayOk(r)

C2_AllOnLine ==
    \A i \in 1..Len(frames.cleaned_df) :
        frames.cleaned_df[i].RouteOrLine = script[2].line

C2_SharedKept ==
    \A i \in 1..Len(disk.INPUT) :
        (/\ disk.INPUT[i].StopName \in SharedStopNames(script[2].line)
         /\ C2_WeekdayOk(disk.INPUT[i]))
        => \E j \in 1..Len(frames.cleaned_df) :
              /\ Identity(frames.cleaned_df[j])
                     = ParsedIdentities(disk.INPUT)[i]
              /\ frames.cleaned_df[j].RouteOrLine = script[2].line

C2_OutputIsStationSet ==
    (script[2].line \in KnownLines /\ Returned(2)) =>
        /\ Identities(frames.cleaned_df)
               = ParsedIdentities(SelectSeq(disk.INPUT, C2_InStationSet))
        /\ C2_AllOnLine
        /\ C2_SharedKept

(***************************************************************************)
(* C2, amended.  The output is exactly the input records (for the Orange   *)
(* Line: those whose Stop Name is in OL_STATIONS) whose Stop Name is one   *)
(* of the line's shared stop names or whose Route Or Line already is the   *)
(* target line; the rest is as claimed.                                    *)
(***************************************************************************)
C2_OutputIsLabelledOrShared ==
    (script[2].line \in KnownLines /\ Returned(2)) =>
        /\ Identities(frames.cleaned_df)
               = ParsedIdentities(SelectSeq(disk.INPUT, C2_LabelledOrShared))
        /\ C2_AllOnLine
        /\ C2_SharedKept

\* A call with weekdays_only that relabels a shared stop, drops a station
\* of the line that carries another label and drops a Saturday record.
C2_Witness ==
    /\ script[2].line = "Blue Line"
    /\ script[2].weekdays_only
    /\ Returned(2)
    /\ Len(disk.INPUT) = 3
    /\ \E i, j, k \in 1..3 :
          /\ disk.INPUT[i].StopName = "State Street"
          /\ disk.INPUT[i].RouteOrLine = "Orange Line"
          /\ disk.INPUT[i].day = "Weekday"
          /\ disk.INPUT[j].StopName = "Wonderland"
          /\ disk.INPUT[j].RouteOrLine = "Orange Line"
          /\ disk.INPUT[j].day = "Weekday"
          /\ disk.INPUT[k].RouteOrLine = "Blue Line"
          /\ disk.INPUT[k].day = "Saturday"
    /\ Len(frames.cleaned_df) = 1
    /\ frames.cleaned_df[1].StopName = "State Street"
    /\ frames.cleaned_df[1].RouteOrLine = "Blue Line"

(***************************************************************************)
(* The station_stats (or overall_stats) call of SpecLine is statement 4;   *)
(* whatever it printed is stdout[1].                                       *)
(***************************************************************************)
StatsCall(op) == script[4].op = op /\ Executed(4)

StatsReturned(op) == script[4].op = op /\ Returned(4)

Table == stdout[1].table

TotalRow == Table[Len(Table)]

StationRows == {i \in 1..Len(Table) - 1 : ~Table[i].NaN}

DataStops == {r.StopName : r \in frames.daily}

BeforeRows(stop) ==
    {r \in frames.daily : r.StopName = stop /\ r.ServiceDate \in BC_SUMNER}

AfterRows(stop) ==
    {r \in frames.daily : r.StopName = stop /\ r.ServiceDate \in AC_SUMNER}

Entries(rows) == SumOver(rows, [r \in rows |-> r.TotalEntries])

Owned(line) == IF line = "Orange Line" THEN OL_STATIONS ELSE BL_STATIONS

TotalLabel(line) ==
    IF line = "Orange Line" THEN "ORANGE LINE TOTAL" ELSE "BLUE LINE TOTAL"

\* x is an integer nearest to n / d (d > 0), whichever way a half goes.
Nearest(x, n, d) ==
    LET diff == x * d - n
    IN  2 * (IF diff < 0 THEN -diff ELSE diff) <= d

(***************************************************************************)
(* C3.  As claimed: in a table station_stats produces, the total row's     *)
(* Before, After and Differential are the sums of those columns over the   *)
(* station rows of the table.                                              *)
(***************************************************************************)
C3_ShownBefore ==
    SumOver(StationRows, [i \in StationRows |-> Table[i].BeforeClosing])

C3_ShownAfter ==
    SumOver(StationRows, [i \in StationRows |-> Table[i].AfterClosing])

C3_ShownDifferential ==
    SumOver(StationRows, [i \in StationRows |-> Table[i].Differential])

C3_TotalIsSumOfShownRows ==
    StatsReturned("station_stats") =>
        /\ TotalRow.BeforeClosing = C3_ShownBefore
        /\ TotalRow.AfterClosing = C3_ShownAfter
        /\ TotalRow.Differential = C3_ShownDifferential

(***************************************************************************)
(* C3, amended.  The total row is the sum over the rows of all stations    *)
(* in the data: the station rows of the table and the rows of the          *)
(* stations the reorder dropped because they are not in ownedStations.     *)
(***************************************************************************)
C3_Dropped == DataStops \ Range(Owned(script[4].line))

C3_DroppedBefore ==
    SumOver(C3_Dropped,
            [s \in C3_Dropped |->
                ss_mean(InWindow(frames.daily, BC_SUMNER), s)])

C3_DroppedAfter ==
    SumOver(C3_Dropped,
            [s \in C3_Dropped |->
                ss_mean(InWindow(frames.daily, AC_SUMNER), s)])

C3_TotalIsSumOfAllStations ==
    StatsReturned("station_stats") =>
        /\ TotalRow.BeforeClosing = C3_ShownBefore + C3_DroppedBefore
        /\ TotalRow.AfterClosing = C3_ShownAfter + C3_DroppedAfter
        /\ TotalRow.Differential =
               C3_ShownDifferential + (C3_DroppedAfter - C3_DroppedBefore)

\* A Blue Line table from data with a station that is not the line's:
\* its row is dropped, its means are in the total row.
C3_Witness ==
    /\ StatsReturned("station_stats")
    /\ script[4].line = "Blue Line"
    /\ Cardinality(StationRows) = 1
    /\ C3_Dropped = {"Oak Grove"}
    /\ C3_ShownBefore = 1
    /\ C3_DroppedBefore = 1
    /\ TotalRow.BeforeClosing = 2
    /\ TotalRow.Differential = -1

(***************************************************************************)
(* C4.  The rows of the table are the line's ownedStations in order and    *)
(* then the total row; a station of the data that is not owned has no      *)
(* row; an owned station without records has a row of NaN, and its         *)
(* absence raises nothing: station_stats raises only when a window is      *)
(* empty, a station of the data is absent from one window, or a station's  *)
(* BEFORE mean rounds to 0.                                                *)
(***************************************************************************)
C4_RowsFollowOwnedStations ==
    /\ StatsReturned("station_stats") =>
          /\ [i \in 1..Len(Table) |-> Table[i].Name]
                 = Owned(script[4].line) \o <<TotalLabel(script[4].line)>>
          /\ \A i \in 1..Len(Table) - 1 :
                 Table[i].NaN <=> Table[i].Name \notin DataStops
          /\ ~TotalRow.NaN
    /\ (StatsCall("station_stats") /\ raised # "none") =>
          \/ InWindow(frames.daily, BC_SUMNER) = {}
          \/ InWindow(frames.daily, AC_SUMNER) = {}
          \/ \E s \in DataStops : BeforeRows(s) = {} \/ AfterRows(s) = {}
          \/ \E s \in DataStops :
                 2 * Entries(BeforeRows(s)) <= Cardinality(BeforeRows(s))

\* A table for the Blue Line from data with an owned station and one that
\* is not owned: eleven rows of NaN, no row for the other station.
C4_Witness ==
    /\ StatsReturned("station_stats")
    /\ script[4].line = "Blue Line"
    /\ DataStops = {"State Street", "Oak Grove"}
    /\ Cardinality(StationRows) = 1
    /\ Len(Table) = 13

(***************************************************************************)
(* C5.  A station with no ridership in the BEFORE window and some in the   *)
(* AFTER window gets no numeric percent change: station_stats raises and   *)
(* prints no table.                                                        *)
(***************************************************************************)
C5_ZeroBaseline(s) ==
    /\ BeforeRows(s) # {}
    /\ Entries(BeforeRows(s)) = 0
    /\ Entries(AfterRows(s)) > 0

C5_ZeroBaselineRaises ==
    (StatsCall("station_stats") /\ \E s \in DataStops : C5_ZeroBaseline(s)) =>
        /\ raised = "ValueError"
        /\ Table = <<>>

\* The zero-baseline station beside a station with ridership in both
\* windows: nothing but the percent column's cast can raise.
C5_Witness ==
    /\ StatsCall("station_stats")
    /\ raised = "ValueError"
    /\ \E s, t \in DataStops :
          /\ C5_ZeroBaseline(s)
          /\ Entries(BeforeRows(t)) > 0
          /\ Entries(AfterRows(t)) > 0
          /\ DataStops = {s, t}
          /\ \A r \in frames.daily : r.TotalEntries = 0 => r.StopName = s
    /\ \A r \in frames.daily :
          r.ServiceDate \in {Timestamp(Ordinal(7, 4)), Timestamp(Ordinal(7, 5))}

(***************************************************************************)
(* C7.  overall_stats prints the whole-line total of the latest date of    *)
(* the data, the mean of the whole-line totals of the BEFORE-window dates  *)
(* rounded to a nearest integer, and the percent change                    *)
(* round(100 * (mostRecent - meanBefore) / meanBefore) of that rounded     *)
(* mean.                                                                   *)
(***************************************************************************)
C7_Dates == {r.ServiceDate : r \in frames.daily}

C7_LineTotal(d) ==
    LET rows == {r \in frames.daily : r.ServiceDate = d}
    IN  Entries(rows)

C7_Latest == CHOOSE d \in C7_Dates : \A e \in C7_Dates : e.ts <= d.ts

C7_BeforeDates == {d \in C7_Dates : d.ts \in Ordinal(6, 1)..Ordinal(7, 4)}

C7_BeforeSum ==
    SumOver(C7_BeforeDates, [d \in C7_BeforeDates |-> C7_LineTotal(d)])

C7_LineStatistics ==
    (StatsReturned("overall_stats")) =>
        LET printed == stdout[1].printed
        IN  /\ Len(printed) = 3
            /\ printed[1].updated_day = strftime(C7_Latest)
            /\ printed[1].updated_num = C7_LineTotal(C7_Latest)
            /\ Nearest(printed[2].avg_ride_bc, C7_BeforeSum,
                       Cardinality(C7_BeforeDates))
            /\ Nearest(printed[3].delta,
                       100 * (printed[1].updated_num - printed[2].avg_ride_bc),
                       printed[2].avg_ride_bc)

\* Two BEFORE dates, one with two stations, whose mean 3/2 is printed as
\* 2, and a latest date in the AFTER window with total 1.
C7_Witness ==
    /\ StatsReturned("overall_stats")
    /\ Cardinality(C7_BeforeDates) = 2
    /\ \E d \in C7_BeforeDates :
          Cardinality({r \in frames.daily : r.ServiceDate = d}) = 2
    /\ C7_BeforeSum = 3
    /\ stdout[1].printed[2].avg_ride_bc = 2
    /\ C7_Latest = Timestamp(Ordinal(7, 5))
    /\ stdout[1].printed[1].updated_num = 1
    /\ stdout[1].printed[3].delta = -50

(***************************************************************************)
(* C6.  check_missing reports exactly the dates of the data on which       *)
(* fewer stations than the line has reported, each with the line's         *)
(* station names minus the names reporting that date; it reports nothing   *)
(* when every date has the expected count.                                 *)
(***************************************************************************)
C6_Dates == {r.ServiceDate : r \in frames.after_sumner}

C6_ReportingOn(d) ==
    {r.StopName : r \in {x \in frames.after_sumner : x.ServiceDate = d}}

C6_Short(d) ==
    Cardinality(C6_ReportingOn(d)) < Len(Owned(script[1].line))

C6_ReportsExactlyMissing ==
    (script[1].line \in KnownLines /\ Returned(1)) =>
        /\ stdout[1].missing =
               {[line |-> script[1].line,
                 date |-> strftime(d),
                 missing |-> Range(Owned(script[1].line)) \ C6_ReportingOn(d)]
                   : d \in {e \in C6_Dates : C6_Short(e)}}
        /\ (\A d \in C6_Dates :
               Cardinality(C6_ReportingOn(d)) = Len(Owned(script[1].line)))
           => stdout[1].missing = {}

\* One date with all twelve Blue Line stations, one date without Bowdoin.
C6_Witness ==
    /\ script[1].line = "Blue Line"
    /\ Returned(1)
    /\ C6_ReportingOn(Timestamp(Ordinal(7, 5))) = Range(BL_STATIONS)
    /\ C6_ReportingOn(Timestamp(Ordinal(7, 6)))
           = Range(BL_STATIONS) \ {"Bowdoin"}
    /\ stdout[1].missing =
           {[line |-> "Blue Line", date |-> <<6, "Jul", 2023>>,
             missing |-> {"Bowdoin"}]}

(***************************************************************************)
(* C8.  No call changes the record set its caller passed in: once Main()   *)
(* has read the two files, blue_df and orange_df stay as read.             *)
(***************************************************************************)
C8_CallerFramesUnchanged ==
    Returned(2) =>
        /\ frames.blue_df = disk.BLUE
        /\ frames.orange_df = disk.ORANGE

(***************************************************************************)
(* C9.  An error raised while processing one line leaves the other line's  *)
(* results produced: if the other line's own pipeline raises nothing,      *)
(* its line summaries and station summaries (with their completeness       *)
(* reports) are printed in the run.                                        *)
(***************************************************************************)
C9_BaseLine(name) ==
    IF startswith(name, "Orange Line") THEN "Orange Line" ELSE "Blue Line"

C9_File(line) == IF line = "Orange Line" THEN disk.ORANGE ELSE disk.BLUE

C9_PipelineRaisesNothing(line) ==
    \A w \in BOOLEAN :
        LET name == IF w THEN line \o " (weekdays)" ELSE line
            cleaned == get_line_entries(C9_File(line), line, w)
            daily == daily_ridership(cleaned.ret)
        IN  /\ cleaned.raised = "none"
            /\ overall_stats(daily, name).raised = "none"
            /\ station_stats(daily, name).raised = "none"

C9_Produced(line) ==
    \A name \in {line, line \o " (weekdays)"} :
        /\ \E i \in 1..Len(stdout) :
              /\ stdout[i].fn = "overall_stats"
              /\ stdout[i].line = name
              /\ Len(stdout[i].printed) = 3
        /\ \E i \in 1..Len(stdout) :
              /\ stdout[i].fn = "station_stats"
              /\ stdout[i].line = name
              /\ stdout[i].table # <<>>

C9_OtherLineStillProduced ==
    raised # "none" =>
        \A other \in KnownLines \ {C9_BaseLine(script[pc].line)} :
            C9_PipelineRaisesNothing(other) => C9_Produced(other)

(***************************************************************************)
(* C10.  The pipeline run a second time on the DataFrame the first run     *)
(* was given yields the same daily totals, the same station table and the  *)
(* same completeness report, and raises nothing the first run did not.     *)
(***************************************************************************)
C10_SecondRunSame ==
    /\ Returned(4) => raised = "none"
    /\ Returned(6) => frames.daily_2 = frames.daily_1
    /\ Returned(7) =>
          /\ stdout[2].table = stdout[1].table
          /\ stdout[2].missing = stdout[1].missing
          /\ stdout[2].dates = stdout[1].dates

\* Both runs done on a DataFrame whose State Street records the first run
\* relabelled in place.
C10_Witness ==
    /\ Returned(7)
    /\ script[2].line = "Blue Line"
    /\ Len(disk.INPUT) = 3
    /\ \E i \in 1..3 :
          /\ disk.INPUT[i].RouteOrLine = "Orange Line"
          /\ frames.df[i].RouteOrLine = "Blue Line"
    /\ \E i \in 1..3 : disk.INPUT[i].RouteOrLine = "Blue Line"
    /\ ~stdout[2].table[10].NaN

====
